---- MODULE Spec2Model ----
(***************************************************************************)
(* The real-time connection hub of chatx-01-backend: the Hub control loop, *)
(* the per-connection Client (read pump, write pump, outbound queue), the  *)
(* upgrade handler with its presence announcements, and the use cases that *)
(* call the Broadcaster.                                                   *)
(*                                                                         *)
(* Go channels are modelled by what they do: an unbuffered channel         *)
(* (register, unregister) is a rendezvous, so the sender waits at its      *)
(* program counter until the Hub loop takes the value; a buffered channel  *)
(* (broadcast, userBroadcast, Client.send) is a bounded FIFO sequence, and *)
(* a blocking send on it is an action guarded by "there is room".          *)
(***************************************************************************)
EXTENDS Naturals, Sequences, FiniteSets, TLC

\* ---------------------------------------------------------------- bounds
\* Connections opened over a run (each ServeHTTP that reaches NewClient).
MaxConns == 3
\* Capacity of Client.send; 256 in the source, scaled down so that a
\* saturated queue is reachable.
sendBufferSize == 2
\* Capacity of Hub.broadcast and Hub.userBroadcast; 256 in the source.
broadcastBufferSize == 2

\* A run is bounded by what reaches the hub from outside. Every input (a
\* use-case broadcast, a typing message read, a membership change, a
\* SubscribeToChat/UnsubscribeFromChat call, the cancellation of the Hub's
\* context) and every failure (a transport error, timeout or request
\* cancellation that ends a pump, a failed GetUserChatIDs lookup) costs 1; the
\* first FreeConns connections cost nothing, each further one costs ConnCost.
MaxCost == 2
FreeConns == 2
ConnCost == 2

Conns == 1..MaxConns
UserIDs == {1, 2}
AllChatIDs == {1, 2}

\* ---------------------------------------------------------------- events
EventMessageNew == "message.new"
EventMessageEdit == "message.edit"
EventMessageDelete == "message.delete"
EventMessageRead == "message.read"
EventTypingStart == "typing.start"
EventTypingStop == "typing.stop"
EventPresenceOnline == "presence.online"
EventPresenceOffline == "presence.offline"
EventError == "error"

\* The client message types handleMessage passes to handleTyping.
TypingTypes == {EventTypingStart, EventTypingStop}

\* An Event: its type and the fields of its payload that identify it.
Event(type, chat, user) == [Type |-> type, ChatID |-> chat, UserID |-> user]

BroadcastMessage(chatID, event, excludeID) ==
    [ChatID |-> chatID, Event |-> event, ExcludeID |-> excludeID]

UserBroadcastMessage(userID, event) == [UserID |-> userID, Event |-> event]

NoMessage == BroadcastMessage(0, Event("", 0, 0), 0)

VARIABLES
    membership,        \* chatRepo: userID -> chats the user participates in
    hpc,               \* ServeHTTP's position, per connection
    todo,              \* broadcastPresence: chats still to announce to
    userID,            \* Client.userID
    chatIDs,           \* Client.chatIDs (snapshot taken by ServeHTTP)
    send,              \* Client.send
    closed,            \* Client.closed is closed
    connCloses,        \* times conn.Close ran on the transport
    rpc,               \* readPump's position
    wpc,               \* writePump's position
    typing,            \* readPump: the typing broadcast handleTyping is sending
    clients,           \* Hub.clients
    chatSubscriptions, \* Hub.chatSubscriptions
    broadcast,         \* Hub.broadcast
    userBroadcast,     \* Hub.userBroadcast
    hubState,          \* Hub.Run: "running", or "stopped" once it has returned
    registering,       \* the client Hub.Run has received from h.register and not
                       \* yet passed to registerClient; 0 when there is none
    subscribeCalls,    \* whether SubscribeToChat/UnsubscribeFromChat was ever called
    queried,           \* the last GetOnlineStatusByUsers call: the IDs asked
                       \* for and what GetOnlineUsers returned
    mu,                \* Hub.mu: who holds the write lock, for which client,
                       \* and the chats its loop has still to go through
    hubLast,           \* the step the Hub took last (observation only)
    onlineBefore,      \* whether the user was online when the client registered
                       \* (observation only)
    unregistering,     \* the client Hub.Run has received from h.unregister and
                       \* not yet passed through unregisterClient; 0 when none
    announced,         \* the chats the connection's presence.online went to
                       \* (observation only)
    inputs,            \* inputs taken so far
    failures           \* failures so far

clientVars == <<userID, chatIDs, send, closed, connCloses>>
pumpVars == <<rpc, wpc, typing>>
hubMaps == <<clients, chatSubscriptions>>
hubChans == <<broadcast, userBroadcast>>
vars == <<membership, hpc, todo, clientVars, pumpVars, hubMaps, hubChans,
          hubState, registering, subscribeCalls, queried, mu, hubLast, onlineBefore, announced, unregistering, inputs, failures>>

\* ---------------------------------------------------------------- helpers
RECURSIVE SetToSeq(_)
SetToSeq(S) ==
    IF S = {} THEN <<>>
    ELSE LET m == CHOOSE x \in S : \A y \in S : x <= y
         IN <<m>> \o SetToSeq(S \ {m})

MapPut(m, k, v) == [x \in DOMAIN m \cup {k} |-> IF x = k THEN v ELSE m[x]]
MapDelete(m, k) == [x \in DOMAIN m \ {k} |-> m[x]]
EmptyMap == [x \in {} |-> {}]

\* Hub.mu held for writing by owner ("registerClient" or "unregisterClient",
\* "none" when free) on behalf of client k, with the chats left to its loop.
Mutex(owner, k, left) == [owner |-> owner, client |-> k, left |-> left]

\* A variant of the readers that do not take h.mu.RLock.
RLockFreeAlways == TRUE

\* h.mu.RLock() can be taken: nobody holds the write lock.
RLockFree == mu.owner = "none"

HubLoopRuns ==
    /\ hubState = "running"
    /\ registering = 0 /\ unregistering = 0
    /\ mu.owner = "none"

\* What a GetOnlineStatusByUsers call asked and got.
Query(ids, online) == [ids |-> ids, online |-> online]

Last(op, k, msg, got) == [op |-> op, client |-> k, msg |-> msg, got |-> got]

\* ---------------------------------------------------------------- Client
\* Client.Close on every client of S: closeOnce lets close(c.closed) and
\* conn.Close run the first time only.
CloseClosed(S) == [k \in Conns |-> closed[k] \/ k \in S]
CloseConn(S) ==
    [k \in Conns |-> IF k \in S /\ ~closed[k] THEN connCloses[k] + 1
                     ELSE connCloses[k]]

\* ---------------------------------------------------------------- Hub
IsUserOnline(u) == u \in DOMAIN clients /\ Cardinality(clients[u]) > 0

\* A variant of GetOnlineUsers that returns every ID it was given.
GetOnlineUsersAll(ids) == ids

RECURSIVE GetOnlineUsers(_)
GetOnlineUsers(ids) ==
    IF ids = <<>> THEN <<>>
    ELSE (IF Head(ids) \in DOMAIN clients /\ Cardinality(clients[Head(ids)]) > 0
          THEN <<Head(ids)>> ELSE <<>>) \o GetOnlineUsers(Tail(ids))

\* registerClient: the clients map after adding connection k.
registerClientClients(k) ==
    LET u == userID[k]
        old == IF u \in DOMAIN clients THEN clients[u] ELSE {}
    IN MapPut(clients, u, old \cup {k})

\* registerClient: chatSubscriptions after merging k's chat set.
registerClientSubs(k) ==
    [c \in DOMAIN chatSubscriptions \cup chatIDs[k] |->
        IF c \in chatIDs[k]
        THEN (IF c \in DOMAIN chatSubscriptions THEN chatSubscriptions[c] ELSE {})
                 \cup {userID[k]}
        ELSE chatSubscriptions[c]]

\* unregisterClient: whether the client is found in its user's set.
unregisterExists(k) == userID[k] \in DOMAIN clients /\ k \in clients[userID[k]]

\* A variant of unregisterClient that leaves the user's key in place when the
\* last connection goes.
unregisterClientClientsKeepKey(k) ==
    IF ~unregisterExists(k) THEN clients
    ELSE MapPut(clients, userID[k], clients[userID[k]] \ {k})

\* A variant of unregisterClient that drops the user's key whenever one of
\* the user's connections goes.
unregisterClientClientsWholeUser(k) ==
    IF ~unregisterExists(k) THEN clients
    ELSE MapDelete(clients, userID[k])

\* A variant of unregisterClient that looks the connection up by its user
\* only and drops that user.
unregisterClientClientsByUser(k) ==
    IF userID[k] \notin DOMAIN clients THEN clients
    ELSE MapDelete(clients, userID[k])

\* unregisterClient: the clients map after removing connection k.
unregisterClientClients(k) ==
    IF ~unregisterExists(k) THEN clients
    ELSE LET rest == clients[userID[k]] \ {k}
         IN IF rest = {} THEN MapDelete(clients, userID[k])
            ELSE MapPut(clients, userID[k], rest)

\* A variant of unregisterClient whose clean-up loop runs for every
\* connection removed, not only for the user's last one.
unregisterClientSubsEager(k) ==
    IF unregisterExists(k)
    THEN LET keep == {c \in DOMAIN chatSubscriptions :
                          chatSubscriptions[c] \ {userID[k]} # {}}
         IN [c \in keep |-> chatSubscriptions[c] \ {userID[k]}]
    ELSE chatSubscriptions

\* A variant of unregisterClient without the clean-up loop.
unregisterClientSubsNever(k) == chatSubscriptions

\* unregisterClient: chatSubscriptions after the clean-up loop, which runs
\* only when k was the user's last connection.
unregisterClientSubs(k) ==
    IF unregisterExists(k) /\ clients[userID[k]] \ {k} = {}
    THEN LET keep == {c \in DOMAIN chatSubscriptions :
                          chatSubscriptions[c] \ {userID[k]} # {}}
         IN [c \in keep |-> chatSubscriptions[c] \ {userID[k]}]
    ELSE chatSubscriptions

\* A variant of sendToUser that goes through every connection opened for
\* user u, whether or not it is (still) in h.clients.
sendToUserTargetsEveryConn(u) == {k \in Conns : userID[k] = u}

\* sendToUser: the connections of user u, each tried with a non-blocking send.
sendToUserTargets(u) == IF u \in DOMAIN clients THEN clients[u] ELSE {}

\* A variant of broadcastToChat that goes through every online user instead
\* of the chat's subscribers.
broadcastToChatTargetsAll(msg) ==
    UNION {sendToUserTargets(u) : u \in {x \in DOMAIN clients : x # msg.ExcludeID}}

\* A variant of broadcastToChat without the ExcludeID check.
broadcastToChatTargetsNoExclude(msg) ==
    IF msg.ChatID \notin DOMAIN chatSubscriptions THEN {}
    ELSE UNION {sendToUserTargets(u) : u \in chatSubscriptions[msg.ChatID]}

\* broadcastToChat: the connections reached through chatSubscriptions.
broadcastToChatTargets(msg) ==
    IF msg.ChatID \notin DOMAIN chatSubscriptions THEN {}
    ELSE UNION {sendToUserTargets(u) :
                    u \in {x \in chatSubscriptions[msg.ChatID] : x # msg.ExcludeID}}

\* A variant of sendToUser whose send does not look at the room left.
DeliveredAlways(targets) == targets

\* select { case client.send <- event: default: } on every target.
Delivered(targets) == {k \in targets : Len(send[k]) < sendBufferSize}

\* A variant of sendToUser that puts the event ahead of the queued ones.
sendAfterAhead(targets, event) ==
    [k \in Conns |-> IF k \in Delivered(targets) THEN <<event>> \o send[k]
                     ELSE send[k]]

\* sendToUser: the queues after the select on every target.
sendAfter(targets, event) ==
    [k \in Conns |-> IF k \in Delivered(targets) THEN Append(send[k], event)
                     ELSE send[k]]

\* ---------------------------------------------------------------- Init
Init ==
    /\ membership = [u \in UserIDs |-> IF u = 1 THEN {1, 2} ELSE {1}]
    /\ hpc = [k \in Conns |-> "idle"]
    /\ todo = [k \in Conns |-> <<>>]
    /\ userID = [k \in Conns |-> 0]
    /\ chatIDs = [k \in Conns |-> {}]
    /\ send = [k \in Conns |-> <<>>]
    /\ closed = [k \in Conns |-> FALSE]
    /\ connCloses = [k \in Conns |-> 0]
    /\ rpc = [k \in Conns |-> "idle"]
    /\ wpc = [k \in Conns |-> "idle"]
    /\ typing = [k \in Conns |-> NoMessage]
    /\ clients = EmptyMap
    /\ chatSubscriptions = EmptyMap
    /\ broadcast = <<>>
    /\ userBroadcast = <<>>
    /\ hubState = "running"
    /\ registering = 0
    /\ subscribeCalls = FALSE
    /\ queried = Query(<<>>, <<>>)
    /\ mu = Mutex("none", 0, <<>>)
    /\ hubLast = Last("none", 0, NoMessage, {})
    /\ onlineBefore = [k \in Conns |-> FALSE]
    /\ announced = [k \in Conns |-> {}]
    /\ unregistering = 0
    /\ inputs = 0
    /\ failures = 0

\* ---------------------------------------------------------------- environment
\* Bookkeeping of the bounded run: connections opened, inputs and failures.
Opened == {k \in Conns : hpc[k] # "idle"}
Spent == ConnCost * Cardinality({k \in Opened : k > FreeConns}) + inputs + failures
NoEnv == UNCHANGED <<inputs, failures>>
Input == Spent < MaxCost /\ inputs' = inputs + 1 /\ UNCHANGED failures
Failure == Spent < MaxCost /\ failures' = failures + 1 /\ UNCHANGED inputs

\* ---------------------------------------------------------------- chatRepo
\* Chat membership changes while connections are open (a user is added to
\* or leaves a chat through the REST use cases).
AddParticipant(u, c) ==
    /\ c \notin membership[u]
    /\ membership' = [membership EXCEPT ![u] = @ \cup {c}]
    /\ Input
    /\ UNCHANGED <<hpc, todo, clientVars, pumpVars, hubMaps, hubChans,
                   hubState, registering, subscribeCalls, queried, mu, hubLast, onlineBefore, announced, unregistering>>

RemoveParticipant(u, c) ==
    /\ c \in membership[u]
    /\ membership' = [membership EXCEPT ![u] = @ \ {c}]
    /\ Input
    /\ UNCHANGED <<hpc, todo, clientVars, pumpVars, hubMaps, hubChans,
                   hubState, registering, subscribeCalls, queried, mu, hubLast, onlineBefore, announced, unregistering>>

\* ---------------------------------------------------------------- Handler
\* ServeHTTP up to h.hub.Register(client): the token is valid for user u, the
\* chat IDs are loaded, the upgrade succeeds, NewClient builds the client and
\* the handler waits on the register channel. Connection slots are taken in
\* order (a slot is only a name for the new *Client).
ServeHTTP(k, u) ==
    /\ hpc[k] = "idle"
    /\ \A j \in Conns : j < k => hpc[j] # "idle"
    /\ k > FreeConns => Spent + ConnCost <= MaxCost
    /\ hpc' = [hpc EXCEPT ![k] = "register"]
    /\ userID' = [userID EXCEPT ![k] = u]
    /\ chatIDs' = [chatIDs EXCEPT ![k] = membership[u]]
    /\ NoEnv
    /\ UNCHANGED <<membership, todo, send, closed, connCloses, pumpVars, hubMaps,
                   hubChans, hubState, registering, subscribeCalls, queried, mu, hubLast, onlineBefore, announced, unregistering>>

\* The ways ServeHTTP can fail before NewClient: no token in the query, the
\* token does not validate, GetUserChatIDs fails, websocket.Accept fails.
UpgradeErrors == {"missing token", "invalid token", "chat ids", "accept"}

\* A variant of ServeHTTP that goes on without chat IDs when GetUserChatIDs
\* fails.
ReturnsEarlyNotOnChatIDs(err) == err \in UpgradeErrors \ {"chat ids"}

\* ServeHTTP returns on every one of these errors.
ReturnsEarly(err) == err \in UpgradeErrors

\* ServeHTTP for a request that meets error err (u is the user of the token,
\* when there is one): the handler answers 401 or 500, or logs, and returns.
\* k is the slot the Client would have taken.
ServeHTTPRejected(k, u, err) ==
    /\ hpc[k] = "idle"
    /\ \A j \in Conns : j < k => hpc[j] # "idle"
    /\ k > FreeConns => Spent + ConnCost <= MaxCost
    /\ IF ReturnsEarly(err)
       THEN UNCHANGED <<hpc, userID, chatIDs>>
       ELSE /\ hpc' = [hpc EXCEPT ![k] = "register"]
            /\ userID' = [userID EXCEPT ![k] = u]
            /\ chatIDs' = [chatIDs EXCEPT ![k] = {}]
    /\ Failure
    /\ UNCHANGED <<membership, todo, send, closed, connCloses, pumpVars, hubMaps,
                   hubChans, hubState, registering, subscribeCalls, queried, mu, hubLast, onlineBefore, announced, unregistering>>

\* A variant of ServeHTTP that goes back to waiting for client.Run after the
\* offline announcement.
AfterPresenceAgain(pc) == "run"

\* What follows a finished broadcastPresence: after the online announcement
\* client.Run starts both pumps; after the offline one ServeHTTP returns.
AfterPresence(pc) == IF pc = "online" THEN "run" ELSE "done"
PumpsAfter(p, k, next) == IF next = "run" THEN [p EXCEPT ![k] = "loop"] ELSE p

\* When ServeHTTP returns nothing refers to its Client any more: the record
\* of connection k is dropped (field f goes back to its zero value).
DropAfter(f, k, next, zero) == IF next = "done" THEN [f EXCEPT ![k] = zero] ELSE f

\* A Run that waits for the first pump only.
RunReturnsAfterOnePump(k) == rpc[k] = "done" \/ wpc[k] = "done"

\* client.Run returns: wg.Wait() is over, both pumps have returned.
RunReturns(k) == rpc[k] = "done" /\ wpc[k] = "done"


\* Where ServeHTTP calls broadcastPresence: once Register has returned, and
\* once client.Run has returned (both pumps done).
PresenceDue(k) ==
    \/ hpc[k] = "registered"
    \/ hpc[k] = "run" /\ RunReturns(k)

\* broadcastPresence up to its loop: GetUserChatIDs is asked again and may
\* fail (ok = FALSE), in which case nothing is announced. Once client.Run has
\* returned what is left in the client's send queue is never written.
BroadcastPresenceStart(k, ok) ==
    /\ PresenceDue(k)
    /\ IF ok THEN NoEnv ELSE Failure
    /\ LET list == IF ok THEN SetToSeq(membership[userID[k]]) ELSE <<>>
           phase == IF hpc[k] = "registered" THEN "online" ELSE "offline"
           next == IF list = <<>> THEN AfterPresence(phase) ELSE phase
       IN /\ todo' = [todo EXCEPT ![k] = list]
          /\ hpc' = [hpc EXCEPT ![k] = next]
          /\ rpc' = PumpsAfter(rpc, k, next)
          /\ wpc' = PumpsAfter(wpc, k, next)
          /\ send' = IF phase = "offline" THEN [send EXCEPT ![k] = <<>>] ELSE send
          /\ userID' = DropAfter(userID, k, next, 0)
          /\ chatIDs' = DropAfter(chatIDs, k, next, {})
          /\ onlineBefore' = DropAfter(onlineBefore, k, next, FALSE)
          /\ announced' = IF phase = "online"
                          THEN [announced EXCEPT ![k] = {list[i] : i \in 1..Len(list)}]
                          ELSE DropAfter(announced, k, next, {})
    /\ UNCHANGED <<membership, closed, connCloses, typing, hubMaps, hubChans,
                   hubState, registering, subscribeCalls, queried, mu, hubLast,
                   unregistering>>

\* The event broadcastPresence builds.
PresenceEvent(u, online) ==
    Event(IF online THEN EventPresenceOnline ELSE EventPresenceOffline, 0, u)

\* One iteration of broadcastPresence's loop: h.hub.BroadcastToChat(chatID,
\* event, userID), a send on the buffered broadcast channel.
BroadcastPresenceSend(k) ==
    /\ hpc[k] \in {"online", "offline"}
    /\ todo[k] # <<>>
    /\ Len(broadcast) < broadcastBufferSize
    /\ broadcast' = Append(broadcast,
           BroadcastMessage(Head(todo[k]),
                            PresenceEvent(userID[k], hpc[k] = "online"),
                            userID[k]))
    /\ LET next == IF Tail(todo[k]) = <<>> THEN AfterPresence(hpc[k]) ELSE hpc[k]
       IN /\ todo' = [todo EXCEPT ![k] = Tail(@)]
          /\ hpc' = [hpc EXCEPT ![k] = next]
          /\ rpc' = PumpsAfter(rpc, k, next)
          /\ wpc' = PumpsAfter(wpc, k, next)
          /\ userID' = DropAfter(userID, k, next, 0)
          /\ chatIDs' = DropAfter(chatIDs, k, next, {})
          /\ onlineBefore' = DropAfter(onlineBefore, k, next, FALSE)
          /\ announced' = DropAfter(announced, k, next, {})
    /\ NoEnv
    /\ UNCHANGED <<membership, send, closed, connCloses, typing, hubMaps,
                   userBroadcast, hubState, registering, subscribeCalls, queried, mu, hubLast,
                   unregistering>>

\* ---------------------------------------------------------------- Client.Run
\* A variant of the pumps that do not look at c.closed (nor at the closed
\* transport): they leave their loops on a failure only.
PumpMayExitOnFailure(k) == Failure

\* A pump may leave its loop: c.closed is seen (or the transport it reads or
\* writes was closed with it), or, as a failure, ctx.Done, a read or write
\* error, a timeout or a failed ping.
PumpMayExit(k) == IF closed[k] THEN NoEnv ELSE Failure

\* A variant of handleTyping without the participant check.
IsParticipantAnyChat(k, c) == c # 0

\* handleTyping's checks: chat_id 0 is ignored, and the chat must be in the
\* client's own chatIDs.
IsParticipant(k, c) == c # 0 /\ c \in chatIDs[k]

\* A variant of handleTyping that passes no user to exclude.
TypingMessageToAll(k, type, c) ==
    BroadcastMessage(c, Event(type, c, userID[k]), 0)

\* handleTyping: the event it builds and the arguments it passes to
\* BroadcastToChat.
TypingMessage(k, type, c) ==
    BroadcastMessage(c, Event(type, c, userID[k]), userID[k])

\* readPump reads a typing.start / typing.stop message and handleMessage
\* dispatches it to handleTyping. An authorized one reaches
\* c.hub.BroadcastToChat(chatID, event, c.userID); any other is dropped.
ReadTyping(k, type, c) ==
    /\ rpc[k] = "loop"
    /\ ~closed[k]
    /\ Input
    /\ IF IsParticipant(k, c)
       THEN /\ typing' = [typing EXCEPT ![k] = TypingMessage(k, type, c)]
            /\ rpc' = [rpc EXCEPT ![k] = "typing"]
       ELSE UNCHANGED <<typing, rpc>>
    /\ UNCHANGED <<membership, hpc, todo, clientVars, wpc, hubMaps, hubChans,
                   hubState, registering, subscribeCalls, queried, mu, hubLast, onlineBefore, announced, unregistering>>

\* handleTyping's BroadcastToChat gets its message into the broadcast channel.
HandleTypingSend(k) ==
    /\ rpc[k] = "typing"
    /\ Len(broadcast) < broadcastBufferSize
    /\ broadcast' = Append(broadcast, typing[k])
    /\ typing' = [typing EXCEPT ![k] = NoMessage]
    /\ rpc' = [rpc EXCEPT ![k] = "loop"]
    /\ NoEnv
    /\ UNCHANGED <<membership, hpc, todo, clientVars, wpc, hubMaps, userBroadcast,
                   hubState, registering, subscribeCalls, queried, mu, hubLast, onlineBefore, announced, unregistering>>

\* writePump takes the next event off c.send and writes it to the transport.
WritePumpEvent(k) ==
    /\ wpc[k] = "loop"
    /\ send[k] # <<>>
    /\ ~closed[k]
    /\ send' = [send EXCEPT ![k] = Tail(@)]
    /\ NoEnv
    /\ UNCHANGED <<membership, hpc, todo, userID, chatIDs, closed, connCloses,
                   pumpVars, hubMaps, hubChans, hubState, registering, subscribeCalls, queried, mu, hubLast,
                   onlineBefore, announced, unregistering>>

\* Client.Send: select { case c.send <- event: return true;
\* case <-c.closed: return false; default: return false }. A select with
\* several ready cases takes any one of them: the send case is ready when
\* the queue has room, the closed case once c.closed is closed, and default
\* is taken only when neither is. The outcomes the call can have:
SendOutcomes(k) ==
    {ok \in BOOLEAN :
        \/ ok /\ Len(send[k]) < sendBufferSize
        \/ ~ok /\ (closed[k] \/ Len(send[k]) >= sendBufferSize)}

\* A call of Client.Send(event) on the client of connection k, made by
\* whoever holds the client, returning ok.
Send(k, event, ok) ==
    /\ hpc[k] \notin {"idle", "done"}
    /\ ok \in SendOutcomes(k)
    /\ send' = IF ok THEN [send EXCEPT ![k] = Append(@, event)] ELSE send
    /\ Input
    /\ UNCHANGED <<membership, hpc, todo, userID, chatIDs, closed, connCloses,
                   pumpVars, hubMaps, hubChans, hubState, registering, subscribeCalls, queried, mu, hubLast,
                   onlineBefore, announced, unregistering>>

\* A pump leaves its loop after Hub.Run has returned: its deferred
\* c.hub.Unregister(c) waits on the unregister channel, which nobody reads.
PumpExitNoHub(k, pump) ==
    /\ hubState = "stopped"
    /\ PumpMayExit(k)
    /\ \/ pump = "read" /\ rpc[k] = "loop"
          /\ rpc' = [rpc EXCEPT ![k] = "unregister"] /\ wpc' = wpc
       \/ pump = "write" /\ wpc[k] = "loop"
          /\ wpc' = [wpc EXCEPT ![k] = "unregister"] /\ rpc' = rpc
    /\ UNCHANGED <<membership, hpc, todo, clientVars, typing, hubMaps,
                   hubChans, hubState, registering, subscribeCalls, queried, mu, hubLast, onlineBefore, announced, unregistering>>

\* ---------------------------------------------------------------- Hub.Run
\* case client := <-h.register: the rendezvous on the unbuffered channel, at
\* which Hub.Register returns to the handler.
HubRegister(k) ==
    /\ HubLoopRuns
    /\ hpc[k] = "register"
    /\ registering' = k
    /\ hpc' = [hpc EXCEPT ![k] = "registered"]
    /\ NoEnv
    /\ UNCHANGED <<membership, todo, clientVars, pumpVars, hubMaps, hubChans,
                   hubState, subscribeCalls, queried, mu, hubLast, onlineBefore, announced, unregistering>>

\* h.registerClient(client), the body of that case: the loop takes no other
\* case until it has run.
HubRegisterClient ==
    /\ hubState = "running"
    /\ registering # 0
    /\ clients' = registerClientClients(registering)
    /\ chatSubscriptions' = registerClientSubs(registering)
    /\ registering' = 0
    /\ hubLast' = Last("register", registering, NoMessage, {})
    /\ onlineBefore' = [onlineBefore EXCEPT
                            ![registering] = IsUserOnline(userID[registering])]
    /\ NoEnv
    /\ UNCHANGED <<membership, hpc, todo, clientVars, pumpVars, hubChans,
                   hubState, subscribeCalls, queried, mu, announced, unregistering>>

\* case client := <-h.unregister: the read pump (pump = "read") or the write
\* pump (pump = "write") of connection k has left its loop and its deferred
\* c.hub.Unregister(c) hands the client over. The channel is unbuffered and
\* the pump does nothing between leaving the loop and the hand-over, so both
\* are one step while Hub.Run is running.
HubUnregister(k, pump) ==
    /\ HubLoopRuns
    /\ PumpMayExit(k)
    /\ \/ pump = "read" /\ rpc[k] = "loop"
          /\ rpc' = [rpc EXCEPT ![k] = "done"] /\ wpc' = wpc
       \/ pump = "write" /\ wpc[k] = "loop"
          /\ wpc' = [wpc EXCEPT ![k] = "done"] /\ rpc' = rpc
    /\ clients' = unregisterClientClients(k)
    /\ chatSubscriptions' = unregisterClientSubs(k)
    /\ closed' = CloseClosed(IF unregisterExists(k) THEN {k} ELSE {})
    /\ connCloses' = CloseConn(IF unregisterExists(k) THEN {k} ELSE {})
    /\ hubLast' = Last("unregister", k, NoMessage,
                       IF unregisterExists(k) THEN {k} ELSE {})
    /\ UNCHANGED <<membership, hpc, todo, userID, chatIDs, send, typing,
                   hubChans, hubState, registering, subscribeCalls, queried, mu,
                   onlineBefore, announced, unregistering>>

\* registerClient and unregisterClient statement by statement, as a reader
\* of h.clients and h.chatSubscriptions on another goroutine could meet them
\* if nothing kept it out. registerClient from h.mu.Lock() to the insertion
\* of the client into h.clients:
registerClientLock ==
    /\ hubState = "running"
    /\ registering # 0
    /\ mu.owner = "none"
    /\ mu' = Mutex("registerClient", registering, SetToSeq(chatIDs[registering]))
    /\ clients' = registerClientClients(registering)
    /\ onlineBefore' = [onlineBefore EXCEPT
                            ![registering] = IsUserOnline(userID[registering])]
    /\ NoEnv
    /\ UNCHANGED <<membership, hpc, todo, clientVars, pumpVars, chatSubscriptions,
                   hubChans, hubState, registering, subscribeCalls, queried, hubLast,
                   announced, unregistering>>

\* One iteration of registerClient's loop over client.ChatIDs().
registerClientSubscribe ==
    /\ mu.owner = "registerClient"
    /\ mu.left # <<>>
    /\ LET c == Head(mu.left)
           u == userID[mu.client]
           old == IF c \in DOMAIN chatSubscriptions THEN chatSubscriptions[c] ELSE {}
       IN chatSubscriptions' = MapPut(chatSubscriptions, c, old \cup {u})
    /\ mu' = [mu EXCEPT !.left = Tail(@)]
    /\ NoEnv
    /\ UNCHANGED <<membership, hpc, todo, clientVars, pumpVars, clients, hubChans,
                   hubState, registering, subscribeCalls, queried, hubLast,
                   onlineBefore, announced, unregistering>>

\* registerClient returns: the deferred h.mu.Unlock(), and Hub.Run is back
\* at its select.
registerClientUnlock ==
    /\ mu.owner = "registerClient"
    /\ mu.left = <<>>
    /\ mu' = Mutex("none", 0, <<>>)
    /\ registering' = 0
    /\ hubLast' = Last("register", mu.client, NoMessage, {})
    /\ NoEnv
    /\ UNCHANGED <<membership, hpc, todo, clientVars, pumpVars, hubMaps, hubChans,
                   hubState, subscribeCalls, queried, onlineBefore, announced, unregistering>>

\* case client := <-h.unregister: the rendezvous at which the Unregister of
\* pump's defer returns and the pump is done; the Hub has the client in hand.
HubUnregisterReceive(k, pump) ==
    /\ HubLoopRuns
    /\ PumpMayExit(k)
    /\ \/ pump = "read" /\ rpc[k] = "loop"
          /\ rpc' = [rpc EXCEPT ![k] = "done"] /\ wpc' = wpc
       \/ pump = "write" /\ wpc[k] = "loop"
          /\ wpc' = [wpc EXCEPT ![k] = "done"] /\ rpc' = rpc
    /\ unregistering' = k
    /\ UNCHANGED <<membership, hpc, todo, clientVars, typing, hubMaps, hubChans,
                   hubState, registering, subscribeCalls, queried, mu, hubLast,
                   onlineBefore, announced>>

\* unregisterClient from h.mu.Lock() to the removal of the client (and of the
\* user's key, if it was the last one) from h.clients, with client.Close().
\* The clean-up loop is still to come.
unregisterClientLock ==
    /\ hubState = "running"
    /\ unregistering # 0
    /\ mu.owner = "none"
    /\ LET k == unregistering
       IN /\ clients' = unregisterClientClients(k)
          /\ closed' = CloseClosed(IF unregisterExists(k) THEN {k} ELSE {})
          /\ connCloses' = CloseConn(IF unregisterExists(k) THEN {k} ELSE {})
          /\ mu' = Mutex("unregisterClient", k,
                         IF unregisterExists(k) /\ clients[userID[k]] \ {k} = {}
                         THEN SetToSeq(DOMAIN chatSubscriptions) ELSE <<>>)
          /\ hubLast' = Last("unregister", k, NoMessage,
                             IF unregisterExists(k) THEN {k} ELSE {})
    /\ NoEnv
    /\ UNCHANGED <<membership, hpc, todo, userID, chatIDs, send, pumpVars,
                   chatSubscriptions, hubChans, hubState, registering,
                   subscribeCalls, queried, onlineBefore, announced, unregistering>>

\* One iteration of unregisterClient's clean-up loop over h.chatSubscriptions.
unregisterClientPrune ==
    /\ mu.owner = "unregisterClient"
    /\ mu.left # <<>>
    /\ Head(mu.left) \in DOMAIN chatSubscriptions
    /\ LET c == Head(mu.left)
           rest == chatSubscriptions[c] \ {userID[mu.client]}
       IN chatSubscriptions' = IF rest = {} THEN MapDelete(chatSubscriptions, c)
                               ELSE MapPut(chatSubscriptions, c, rest)
    /\ mu' = [mu EXCEPT !.left = Tail(@)]
    /\ NoEnv
    /\ UNCHANGED <<membership, hpc, todo, clientVars, pumpVars, clients, hubChans,
                   hubState, registering, subscribeCalls, queried, hubLast,
                   onlineBefore, announced, unregistering>>

\* unregisterClient returns: the deferred h.mu.Unlock().
unregisterClientUnlock ==
    /\ mu.owner = "unregisterClient"
    /\ mu.left = <<>>
    /\ mu' = Mutex("none", 0, <<>>)
    /\ unregistering' = 0
    /\ NoEnv
    /\ UNCHANGED <<membership, hpc, todo, clientVars, pumpVars, hubMaps, hubChans,
                   hubState, registering, subscribeCalls, queried, hubLast,
                   onlineBefore, announced>>

\* case msg := <-h.broadcast
HubBroadcastToChat ==
    /\ HubLoopRuns
    /\ broadcast # <<>>
    /\ LET msg == Head(broadcast)
           targets == broadcastToChatTargets(msg)
       IN /\ send' = sendAfter(targets, msg.Event)
          /\ hubLast' = Last("chat", 0, msg, Delivered(targets))
    /\ broadcast' = Tail(broadcast)
    /\ NoEnv
    /\ UNCHANGED <<membership, hpc, todo, userID, chatIDs, closed, connCloses,
                   pumpVars, hubMaps, userBroadcast, hubState, registering, subscribeCalls, queried, mu,
                   onlineBefore, announced, unregistering>>

\* case msg := <-h.userBroadcast
HubBroadcastToUser ==
    /\ HubLoopRuns
    /\ userBroadcast # <<>>
    /\ LET msg == Head(userBroadcast)
           targets == sendToUserTargets(msg.UserID)
       IN /\ send' = sendAfter(targets, msg.Event)
          /\ hubLast' = Last("user", 0,
                             BroadcastMessage(0, msg.Event, 0), Delivered(targets))
    /\ userBroadcast' = Tail(userBroadcast)
    /\ NoEnv
    /\ UNCHANGED <<membership, hpc, todo, userID, chatIDs, closed, connCloses,
                   pumpVars, hubMaps, broadcast, hubState, registering, subscribeCalls, queried, mu,
                   onlineBefore, announced, unregistering>>

\* A variant of shutdown that clears the maps without closing any client.
shutdownClientsNone == {}

\* shutdown: the clients still registered.
shutdownClients == UNION {clients[u] : u \in DOMAIN clients}

\* case <-ctx.Done(): h.shutdown(); return. The context given to Hub.Run is
\* cancelled from outside; nothing but this case observes it, so the
\* cancellation and the loop taking the case are one step.
HubShutdown ==
    /\ HubLoopRuns
    /\ hubState' = "stopped"
    /\ closed' = CloseClosed(shutdownClients)
    /\ connCloses' = CloseConn(shutdownClients)
    /\ clients' = EmptyMap
    /\ chatSubscriptions' = EmptyMap
    /\ hubLast' = Last("shutdown", 0, NoMessage, shutdownClients)
    /\ Input
    /\ UNCHANGED <<membership, hpc, todo, userID, chatIDs, send, pumpVars,
                   hubChans, registering, subscribeCalls, queried, mu, onlineBefore, announced, unregistering>>

\* SubscribeToChat, under h.mu.
SubscribeToChat(c, u) ==
    /\ chatSubscriptions' = MapPut(chatSubscriptions, c,
           (IF c \in DOMAIN chatSubscriptions THEN chatSubscriptions[c] ELSE {})
               \cup {u})
    /\ subscribeCalls' = TRUE
    /\ Input
    /\ UNCHANGED <<membership, hpc, todo, clientVars, pumpVars, clients,
                   hubChans, hubState, registering, queried, mu, hubLast, onlineBefore, announced, unregistering>>

\* UnsubscribeFromChat, under h.mu.
UnsubscribeFromChat(c, u) ==
    /\ chatSubscriptions' =
           IF c \notin DOMAIN chatSubscriptions THEN chatSubscriptions
           ELSE IF chatSubscriptions[c] \ {u} = {} THEN MapDelete(chatSubscriptions, c)
           ELSE MapPut(chatSubscriptions, c, chatSubscriptions[c] \ {u})
    /\ subscribeCalls' = TRUE
    /\ Input
    /\ UNCHANGED <<membership, hpc, todo, clientVars, pumpVars, clients,
                   hubChans, hubState, registering, queried, mu, hubLast, onlineBefore, announced, unregistering>>

\* ---------------------------------------------------------------- use cases
\* Hub.BroadcastToChat: h.broadcast <- &BroadcastMessage{...}, a send that
\* goes through when the buffered channel has room.
BroadcastToChat(chatID, event, excludeUserID) ==
    /\ Len(broadcast) < broadcastBufferSize
    /\ broadcast' = Append(broadcast, BroadcastMessage(chatID, event, excludeUserID))
    /\ UNCHANGED userBroadcast

\* Hub.BroadcastToUser: h.userBroadcast <- &UserBroadcastMessage{...}.
BroadcastToUser(u, event) ==
    /\ Len(userBroadcast) < broadcastBufferSize
    /\ userBroadcast' = Append(userBroadcast, UserBroadcastMessage(u, event))
    /\ UNCHANGED broadcast

\* BroadcastNewMessage: the sender is not excluded.
BroadcastNewMessage(c, u) == BroadcastToChat(c, Event(EventMessageNew, c, u), 0)

\* BroadcastEditMessage: the sender is not excluded.
BroadcastEditMessage(c, u) == BroadcastToChat(c, Event(EventMessageEdit, c, u), 0)

\* BroadcastDeleteMessage: the payload names no user; nobody is excluded.
BroadcastDeleteMessage(c) == BroadcastToChat(c, Event(EventMessageDelete, c, 0), 0)

\* A variant of BroadcastReadReceipt that does not exclude the reader.
BroadcastReadReceiptToAll(c, u) == BroadcastToChat(c, Event(EventMessageRead, c, u), 0)

\* BroadcastReadReceipt: the reader is excluded.
BroadcastReadReceipt(c, u) == BroadcastToChat(c, Event(EventMessageRead, c, u), u)

\* SendMessage by participant u of chat c, once messageRepo.Create succeeded.
SendMessage(u, c) ==
    /\ c \in membership[u]
    /\ BroadcastNewMessage(c, u)
    /\ Input
    /\ UNCHANGED <<membership, hpc, todo, clientVars, pumpVars, hubMaps,
                   hubState, registering, subscribeCalls, queried, mu, hubLast, onlineBefore, announced, unregistering>>

\* EditMessage by u, the sender of a message of chat c, once
\* messageRepo.Update succeeded. Only the message's SenderID is checked, not
\* the chat's participants.
EditMessage(u, c) ==
    /\ BroadcastEditMessage(c, u)
    /\ Input
    /\ UNCHANGED <<membership, hpc, todo, clientVars, pumpVars, hubMaps,
                   hubState, registering, subscribeCalls, queried, mu, hubLast, onlineBefore, announced, unregistering>>

\* DeleteMessage by u, the sender of a message of chat c, once
\* messageRepo.Delete succeeded.
DeleteMessage(u, c) ==
    /\ BroadcastDeleteMessage(c)
    /\ Input
    /\ UNCHANGED <<membership, hpc, todo, clientVars, pumpVars, hubMaps,
                   hubState, registering, subscribeCalls, queried, mu, hubLast, onlineBefore, announced, unregistering>>

\* MarkMessagesAsRead by participant u of chat c, once UpdateLastRead
\* succeeded.
MarkMessagesAsRead(u, c) ==
    /\ c \in membership[u]
    /\ BroadcastReadReceipt(c, u)
    /\ Input
    /\ UNCHANGED <<membership, hpc, todo, clientVars, pumpVars, hubMaps,
                   hubState, registering, subscribeCalls, queried, mu, hubLast, onlineBefore, announced, unregistering>>

\* The longest list of user IDs asked about, and the IDs asked about: the
\* users, and one ID that never connects.
MaxIDs == 2
CandidateIDs == UserIDs \cup {3}
CandidateLists == UNION {[1..n -> CandidateIDs] : n \in 0..MaxIDs}

\* GetOnlineStatusByUsers: uc.onlineChecker.GetOnlineUsers(req.UserIDs), from
\* which the statuses are built. GetOnlineUsers takes h.mu.RLock first.
GetOnlineStatusByUsers(ids) ==
    /\ RLockFree
    /\ queried' = Query(ids, GetOnlineUsers(ids))
    /\ Input
    /\ UNCHANGED <<membership, hpc, todo, clientVars, pumpVars, hubMaps, hubChans,
                   hubState, registering, subscribeCalls, mu, hubLast, onlineBefore, announced, unregistering>>

\* A direct push to one user through Hub.BroadcastToUser.
PushToUser(u) ==
    /\ BroadcastToUser(u, Event(EventError, 0, u))
    /\ Input
    /\ UNCHANGED <<membership, hpc, todo, clientVars, pumpVars, hubMaps,
                   hubState, registering, subscribeCalls, queried, mu, hubLast, onlineBefore, announced, unregistering>>

\* ---------------------------------------------------------------- Next

\* ---------------------------------------------------------------- observers
\* Connection k is in Hub.clients.
Registered(k) == userID[k] \in DOMAIN clients /\ k \in clients[userID[k]]

\* The users in chatSubscriptions[c].
Subscribers(c) == IF c \in DOMAIN chatSubscriptions THEN chatSubscriptions[c] ELSE {}

\* This step is Hub.Run taking the head of the broadcast channel.
HubTakesBroadcast ==
    HubLoopRuns /\ broadcast # <<>> /\ broadcast' = Tail(broadcast)

\* This step is Hub.Run removing connection k from Hub.clients on an
\* unregister request.
HubRemoves(k) == Registered(k) /\ hubState' = "running" /\ ~Registered(k)'

\* This step is the handler of connection k handing a presence event to
\* Hub.BroadcastToChat.
IssuesPresence(k, online) ==
    /\ hpc[k] = (IF online THEN "online" ELSE "offline")
    /\ todo[k] # <<>>
    /\ todo'[k] = Tail(todo[k])
    /\ broadcast' = Append(broadcast,
           BroadcastMessage(Head(todo[k]), PresenceEvent(userID[k], online),
                            userID[k]))

\* The event at the tail of connection k's send queue.
LastQueued(k) == send[k][Len(send[k])]

\* ---------------------------------------------------------------- properties
\* C1 (fan-out completeness): when the Hub processes a chat broadcast with
\* ExcludeID 0, every connection registered under a user in
\* chatSubscriptions[c] whose send queue is not full gets exactly one copy of
\* the event appended, and every other connection's queue (a full one, one of
\* a user not subscribed to c, one not registered) is left as it was.
FanOutCompleteness ==
    [][(HubTakesBroadcast /\ Head(broadcast).ExcludeID = 0) =>
          \A k \in Conns :
              send'[k] = IF /\ Registered(k)
                            /\ userID[k] \in Subscribers(Head(broadcast).ChatID)
                            /\ Len(send[k]) < sendBufferSize
                         THEN Append(send[k], Head(broadcast).Event)
                         ELSE send[k]]_vars

\* The Hub has just processed a broadcast with ExcludeID 0 that reached a
\* subscriber's connection while a connection of a user who is not
\* subscribed to that chat was registered.
FanOutCompletenessWitness ==
    /\ hubLast.op = "chat"
    /\ hubLast.msg.ExcludeID = 0
    /\ hubLast.got # {}
    /\ \A k \in hubLast.got : send[k] # <<>> /\ LastQueued(k) = hubLast.msg.Event
    /\ \E j \in Conns :
           /\ Registered(j)
           /\ userID[j] \notin Subscribers(hubLast.msg.ChatID)
           /\ j \notin hubLast.got

\* C2 (exclusion): when the Hub processes a chat broadcast whose ExcludeID is
\* a user u, the queue of every connection owned by u is left as it was,
\* however many connections u has, and every connection registered under any
\* other subscriber of the chat gets the event (by the Hub's non-blocking
\* send, that is when its queue has room).
Exclusion ==
    [][(HubTakesBroadcast /\ Head(broadcast).ExcludeID # 0) =>
          \A k \in Conns :
              /\ userID[k] = Head(broadcast).ExcludeID => send'[k] = send[k]
              /\ ( /\ Registered(k)
                   /\ userID[k] \in Subscribers(Head(broadcast).ChatID)
                   /\ userID[k] # Head(broadcast).ExcludeID
                   /\ Len(send[k]) < sendBufferSize )
                 => send'[k] = Append(send[k], Head(broadcast).Event)]_vars

\* The Hub has just processed a broadcast excluding a subscriber who has two
\* registered connections: neither got the event, another subscriber did.
ExclusionWitness ==
    /\ hubLast.op = "chat"
    /\ hubLast.msg.ExcludeID \in DOMAIN clients
    /\ hubLast.msg.ExcludeID \in Subscribers(hubLast.msg.ChatID)
    /\ Cardinality(clients[hubLast.msg.ExcludeID]) >= 2
    /\ clients[hubLast.msg.ExcludeID] \cap hubLast.got = {}
    /\ hubLast.got # {}
    /\ \A k \in hubLast.got : LastQueued(k) = hubLast.msg.Event

\* C3 (presence.offline only on the last disconnect): a handler hands a
\* presence.offline event for user u to the Hub only at a moment when u has
\* no registered connection left.
OfflineOnlyOnLastDisconnect ==
    [][\A k \in Conns :
          IssuesPresence(k, FALSE) => ~IsUserOnline(userID[k])]_vars

\* C4 (presence.online only on the first connect): a handler hands a
\* presence.online event to the Hub only for a connection that registered
\* while its user had no registered connection.
OnlineOnlyOnFirstConnect ==
    [][\A k \in Conns : IssuesPresence(k, TRUE) => ~onlineBefore[k]]_vars

\* C5 (multi-device isolation): when the Hub unregisters one of several
\* connections of a user, the user stays online, chatSubscriptions does not
\* change, the user's other connections stay registered and open; and every
\* later chat broadcast reaches each registered connection of each subscriber
\* it does not exclude whose queue has room.
MultiDeviceIsolation ==
    [][ /\ \A k \in Conns :
              (HubRemoves(k) /\ Cardinality(clients[userID[k]]) >= 2) =>
                  /\ IsUserOnline(userID[k])'
                  /\ clients' = [clients EXCEPT ![userID[k]] = @ \ {k}]
                  /\ chatSubscriptions' = chatSubscriptions
                  /\ \A j \in clients[userID[k]] \ {k} : ~closed'[j]
        /\ HubTakesBroadcast =>
              \A j \in Conns :
                  ( /\ Registered(j)
                    /\ userID[j] \in Subscribers(Head(broadcast).ChatID)
                    /\ userID[j] # Head(broadcast).ExcludeID
                    /\ Len(send[j]) < sendBufferSize )
                  => send'[j] = Append(send[j], Head(broadcast).Event) ]_vars

\* A user had two registered connections, one of them was unregistered and
\* closed, and the Hub has just delivered a later broadcast to the other.
MultiDeviceIsolationWitness ==
    /\ hubLast.op = "chat"
    /\ \E k \in hubLast.got, j \in Conns :
           /\ j # k
           /\ userID[j] = userID[k]
           /\ closed[j]
           /\ onlineBefore[k] \/ onlineBefore[j]
           /\ \A i \in Conns \ {j, k} : userID[i] # userID[k]
           /\ IsUserOnline(userID[k])
           /\ LastQueued(k) = hubLast.msg.Event

\* C6 (saturation is local): the Hub's loop can always take the next chat
\* broadcast whatever the state of the send queues, and when it does, a
\* connection whose queue is full keeps its queue as it was, every other
\* target with room gets the event in the same step, and no connection is
\* unregistered or closed by the step.
SaturationIsLocal ==
    /\ []((HubLoopRuns /\ broadcast # <<>>) => ENABLED HubBroadcastToChat)
    /\ [][HubTakesBroadcast =>
             /\ clients' = clients
             /\ chatSubscriptions' = chatSubscriptions
             /\ closed' = closed
             /\ \A k \in Conns :
                    /\ Len(send[k]) = sendBufferSize => send'[k] = send[k]
                    /\ Len(send'[k]) <= sendBufferSize
                    /\ ( /\ Registered(k)
                         /\ userID[k] \in Subscribers(Head(broadcast).ChatID)
                         /\ userID[k] # Head(broadcast).ExcludeID
                         /\ Len(send[k]) < sendBufferSize )
                       => send'[k] = Append(send[k], Head(broadcast).Event)]_vars

\* The Hub has just processed a broadcast that one target could not take
\* because its queue was full, while another target got it; the saturated
\* connection is still registered.
SaturationIsLocalWitness ==
    /\ hubLast.op = "chat"
    /\ hubLast.got # {}
    /\ \E k \in Conns \ hubLast.got :
           /\ Registered(k)
           /\ ~closed[k]
           /\ userID[k] \in Subscribers(hubLast.msg.ChatID)
           /\ userID[k] # hubLast.msg.ExcludeID
           /\ Len(send[k]) = sendBufferSize

\* C7 (BroadcastToChat never blocks its caller): whenever a handler or a
\* read pump is inside Hub.BroadcastToChat, the call can return at once,
\* whatever is pending and whatever the Hub's loop is doing.
BroadcastNeverBlocks ==
    \A k \in Conns :
        /\ (hpc[k] \in {"online", "offline"} /\ todo[k] # <<>>)
               => ENABLED BroadcastPresenceSend(k)
        /\ rpc[k] = "typing" => ENABLED HandleTypingSend(k)

\* C8 (Run returns after shutdown): once the Hub's loop has shut down, a
\* connection whose Run has not returned can still take a step towards
\* returning.
RunReturnsAfterShutdown ==
    \A k \in Conns :
        (hubState = "stopped" /\ hpc[k] = "run"
             /\ ~(rpc[k] = "done" /\ wpc[k] = "done"))
        => ENABLED ( \/ PumpExitNoHub(k, "read") \/ PumpExitNoHub(k, "write")
                     \/ HubUnregister(k, "read") \/ HubUnregister(k, "write")
                     \/ HandleTypingSend(k) )

\* C9 (clients holds exactly the users with an open connection): a user is a
\* key of Hub.clients if and only if some connection of that user has been
\* registered (the Hub has run registerClient for it) and is not closed; no
\* key maps to an empty set, and every connection in the map is open and
\* filed under its own user.
ClientsKeysAreOpenUsers ==
    /\ DOMAIN clients \subseteq UserIDs
    /\ \A u \in UserIDs :
           u \in DOMAIN clients <=>
               \E k \in Conns : /\ userID[k] = u
                                /\ hpc[k] \notin {"idle", "register"}
                                /\ registering # k
                                /\ ~closed[k]
    /\ \A u \in DOMAIN clients :
           /\ clients[u] # {}
           /\ \A k \in clients[u] : ~closed[k] /\ userID[k] = u

\* One user is online while another user, whose only connection has been
\* closed, is no longer a key of clients.
ClientsKeysAreOpenUsersWitness ==
    /\ DOMAIN clients # {}
    /\ \E j \in Conns :
           /\ closed[j]
           /\ userID[j] \in UserIDs
           /\ userID[j] \notin DOMAIN clients

\* C10 (subscriptions match the open connections): user u is in
\* chatSubscriptions[c] if and only if some registered connection of u has c
\* in its connect-time chat set.
SubscriptionsMatchOpenConnections ==
    \A u \in UserIDs, c \in AllChatIDs :
        u \in Subscribers(c) <=>
            \E k \in Conns : Registered(k) /\ userID[k] = u /\ c \in chatIDs[k]

\* C10 as the code has it: as long as SubscribeToChat / UnsubscribeFromChat
\* have not been called, every chat of every registered connection of u has u
\* subscribed, and a subscribed user is online; a chat of a connection that
\* has gone stays subscribed until the user's last connection goes.
SubscriptionsCoverOpenConnections ==
    ~subscribeCalls =>
        \A u \in UserIDs, c \in AllChatIDs :
            /\ (\E k \in Conns : Registered(k) /\ userID[k] = u /\ c \in chatIDs[k])
                   => u \in Subscribers(c)
            /\ u \in Subscribers(c) => IsUserOnline(u)

\* Without any SubscribeToChat / UnsubscribeFromChat call, a user is
\* subscribed to a chat that none of the user's registered connections has in
\* its chat set: the connection that had it was unregistered while another
\* connection of the user stayed.
SubscriptionsCoverOpenConnectionsWitness ==
    /\ ~subscribeCalls
    /\ \E u \in UserIDs, c \in AllChatIDs :
           /\ u \in Subscribers(c)
           /\ IsUserOnline(u)
           /\ \A k \in clients[u] : c \notin chatIDs[k]
           /\ \E j \in Conns : userID[j] = u /\ closed[j] /\ c \in chatIDs[j]

\* C11 (Client.Send reports closed and full): a call of Client.Send on a
\* connection that has been closed or whose queue is full returns false and
\* leaves the queue as it was; a call that returns true was made on an open
\* connection and appended the event.
SendReportsClosedAndFull ==
    [][\A k \in Conns, ok \in BOOLEAN :
          Send(k, Event(EventError, 0, userID[k]), ok) =>
              /\ (closed[k] \/ Len(send[k]) >= sendBufferSize)
                     => (~ok /\ send' = send)
              /\ ok => ( /\ ~closed[k]
                         /\ send'[k] = Append(send[k], Event(EventError, 0, userID[k])) )]_vars

GracefulShutdown ==
    /\ [](hubState = "stopped" =>
              /\ clients = EmptyMap
              /\ \A u \in UserIDs : ~IsUserOnline(u))
    /\ [][(hubState = "running" /\ hubState' = "stopped") =>
              /\ \A k \in Conns :
                     IF Registered(k)
                     THEN closed'[k] /\ connCloses'[k] = 1
                     ELSE closed'[k] = closed[k] /\ connCloses'[k] = connCloses[k]
              /\ clients' = EmptyMap
              /\ chatSubscriptions' = EmptyMap]_vars

\* The Hub has just shut down with two connections registered: both are
\* closed and both maps are empty.
GracefulShutdownWitness ==
    /\ hubLast.op = "shutdown"
    /\ hubState = "stopped"
    /\ Cardinality(hubLast.got) >= 2
    /\ \A k \in hubLast.got : closed[k] /\ connCloses[k] = 1
    /\ clients = EmptyMap /\ chatSubscriptions = EmptyMap

\* Hub.Register has returned for connection k, no pump of k has handed k to
\* Unregister yet, and the Hub has not shut down.
RegisterReturned(k) ==
    /\ hubState = "running"
    /\ \/ hpc[k] \in {"registered", "online"}
       \/ hpc[k] = "run" /\ rpc[k] = "loop" /\ wpc[k] = "loop"

\* C15 (registration is visible once Register returns): for a connection k of
\* user u for which Register has returned and which has not been
\* unregistered, IsUserOnline(u) is true and GetOnlineUsers of a list holding
\* u contains u; and when the Hub processes a chat broadcast for a chat of k's
\* chat set that does not exclude u, k gets the event if its queue has room.
RegistrationVisible ==
    /\ [](\A k \in Conns : RegisterReturned(k) =>
              /\ IsUserOnline(userID[k])
              /\ \E i \in 1..Len(GetOnlineUsers(SetToSeq(UserIDs))) :
                     GetOnlineUsers(SetToSeq(UserIDs))[i] = userID[k])
    /\ [][\A k \in Conns :
              (/\ HubTakesBroadcast
               /\ RegisterReturned(k)
               /\ Head(broadcast).ChatID \in chatIDs[k]
               /\ Head(broadcast).ExcludeID # userID[k]
               /\ Len(send[k]) < sendBufferSize)
              => send'[k] = Append(send[k], Head(broadcast).Event)]_vars

\* C16 (per-connection FIFO): BroadcastToChat puts a message behind every
\* message already in h.broadcast and Hub.Run takes the oldest one; an event
\* the Hub delivers to a connection goes behind every event already in that
\* connection's queue; and the write pump takes the oldest queued event. So
\* two broadcasts issued one after the other reach every connection that
\* gets both in the order of issue, and are written in that order.
PerConnectionFIFO ==
    [][/\ broadcast' # broadcast =>
              \/ broadcast # <<>> /\ broadcast' = Tail(broadcast)
              \/ /\ Len(broadcast') = Len(broadcast) + 1
                 /\ SubSeq(broadcast', 1, Len(broadcast)) = broadcast
       /\ \A k \in Conns : send'[k] # send[k] =>
              \/ /\ HubTakesBroadcast
                 /\ send'[k] = Append(send[k], Head(broadcast).Event)
              \/ /\ userBroadcast # <<>> /\ userBroadcast' = Tail(userBroadcast)
                 /\ send'[k] = Append(send[k], Head(userBroadcast).Event)
              \/ /\ wpc[k] = "loop" /\ broadcast' = broadcast
                 /\ send'[k] = Tail(send[k])
              \/ /\ hpc'[k] \in {"offline", "done"}
                 /\ send'[k] = <<>>]_vars

\* Two message.new events of chat 1 were issued one after the other, by
\* user 1 and then by user 2; connection 1 holds both, in that order, the
\* second one delivered by the Hub's last step.
PerConnectionFIFOWitness ==
    /\ hubLast.op = "chat"
    /\ 1 \in hubLast.got
    /\ send[1] = <<Event(EventMessageNew, 1, 1), Event(EventMessageNew, 1, 2)>>
    /\ hubLast.msg.Event = Event(EventMessageNew, 1, 2)
    /\ wpc[1] = "loop"

\* C17 (frame effect of Unregister): when the Hub processes Unregister for
\* a registered connection k of user u, k is closed and no other connection
\* is; if k was u's last connection, u leaves clients and every chat
\* subscription, otherwise clients[u] loses exactly k and u's subscriptions
\* stay; the entries of every other user stay as they were in both maps.
UnregisterFrame ==
    [][\A k \in Conns, pump \in {"read", "write"} :
          (HubUnregister(k, pump) /\ Registered(k)) =>
              LET u == userID[k]
                  rest == clients[u] \ {k}
              IN /\ closed'[k]
                 /\ \A j \in Conns \ {k} :
                        closed'[j] = closed[j] /\ connCloses'[j] = connCloses[j]
                 /\ IF rest = {}
                    THEN /\ u \notin DOMAIN clients'
                         /\ \A c \in AllChatIDs : u \notin Subscribers(c)'
                    ELSE /\ u \in DOMAIN clients' /\ clients'[u] = rest
                         /\ \A c \in AllChatIDs :
                                (u \in Subscribers(c)') <=> (u \in Subscribers(c))
                 /\ \A v \in UserIDs \ {u} :
                        /\ (v \in DOMAIN clients') <=> (v \in DOMAIN clients)
                        /\ v \in DOMAIN clients => clients'[v] = clients[v]
                        /\ \A c \in AllChatIDs :
                               (v \in Subscribers(c)') <=> (v \in Subscribers(c))]_vars

\* The Hub has just unregistered connection 1, the last one of user 1, while
\* user 2 stays registered and subscribed.
UnregisterFrameWitness ==
    /\ hubLast.op = "unregister"
    /\ hubLast.client = 1
    /\ hubLast.got = {1}
    /\ userID[1] = 1
    /\ closed[1]
    /\ 1 \notin DOMAIN clients
    /\ \A c \in AllChatIDs : 1 \notin Subscribers(c)
    /\ 2 \in DOMAIN clients
    /\ \E c \in AllChatIDs : 2 \in Subscribers(c)

\* C18 (Unregister is idempotent): when the Hub processes Unregister for a
\* connection that is not registered (the second pump's call, after the
\* first pump's was processed), clients and chatSubscriptions stay as they
\* are and no connection is closed or has its queue touched, also when the
\* same user has registered another connection in the meantime.
UnregisterIdempotent ==
    [][\A k \in Conns, pump \in {"read", "write"} :
          (HubUnregister(k, pump) /\ ~Registered(k)) =>
              UNCHANGED <<clients, chatSubscriptions, closed, connCloses, send>>]_vars

\* Connection 1 of user 1 was unregistered, connection 2 of user 1 was
\* registered after that, and the Hub has just processed the Unregister of
\* the other pump of connection 1: connection 2 is still registered and open.
UnregisterIdempotentWitness ==
    /\ hubLast.op = "unregister"
    /\ hubLast.client = 1
    /\ hubLast.got = {}
    /\ userID[1] = 1 /\ userID[2] = 1
    /\ rpc[1] = "done" /\ wpc[1] = "done"
    /\ ~onlineBefore[1] /\ ~onlineBefore[2]
    /\ 1 \in DOMAIN clients /\ clients[1] = {2}
    /\ ~closed[2]
    /\ \E c \in AllChatIDs : 1 \in Subscribers(c)

\* The message events that are broadcast with nobody excluded.
IncludeSenderTypes == {EventMessageNew, EventMessageEdit, EventMessageDelete}

\* C19 (broadcaster exclusion policy): a message.read event is queued for
\* its chat with the reader as ExcludeID, and when the Hub processes it no
\* connection of the reader gets it while every connection of another
\* subscriber with room does; message.new, message.edit and message.delete
\* are queued with ExcludeID 0, and when the Hub processes one every
\* connection of every subscriber with room, the sender's included, gets it.
BroadcasterExclusionPolicy ==
    /\ [](\A i \in 1..Len(broadcast) :
              LET msg == broadcast[i]
              IN /\ msg.Event.Type = EventMessageRead =>
                        msg.ExcludeID = msg.Event.UserID /\ msg.ChatID = msg.Event.ChatID
                 /\ msg.Event.Type \in IncludeSenderTypes =>
                        msg.ExcludeID = 0 /\ msg.ChatID = msg.Event.ChatID)
    /\ [][HubTakesBroadcast =>
              LET msg == Head(broadcast)
                  reached(k) == send'[k] = Append(send[k], msg.Event)
                  due(k) == /\ Registered(k)
                            /\ userID[k] \in Subscribers(msg.ChatID)
                            /\ Len(send[k]) < sendBufferSize
              IN /\ msg.Event.Type = EventMessageRead =>
                        \A k \in Conns :
                            /\ userID[k] = msg.Event.UserID => send'[k] = send[k]
                            /\ (due(k) /\ userID[k] # msg.Event.UserID) => reached(k)
                 /\ msg.Event.Type \in IncludeSenderTypes =>
                        \A k \in Conns : due(k) => reached(k)]_vars

\* Connection 2 of user 2 holds the message.edit of user 2's own message,
\* and the Hub has just processed user 2's read receipt for the same chat:
\* connection 1 of user 1 got it, connection 2, with room left, did not.
BroadcasterExclusionPolicyWitness ==
    /\ hubLast.op = "chat"
    /\ hubLast.msg.Event = Event(EventMessageRead, 1, 2)
    /\ hubLast.got = {1}
    /\ userID[1] = 1 /\ userID[2] = 2
    /\ Registered(1) /\ Registered(2)
    /\ 2 \in Subscribers(1)
    /\ send[2] = <<Event(EventMessageEdit, 1, 2)>>
    /\ LastQueued(1) = Event(EventMessageRead, 1, 2)

\* C20 (a connection's chat set is a connect-time snapshot): when the Hub
\* processes a chat broadcast, a connection gets the event only if the chat
\* was in the chat set loaded when that connection was opened, also when the
\* user has joined the chat since and opened another connection.
ConnectTimeSnapshot ==
    [][\A k \in Conns :
          (HubTakesBroadcast /\ send'[k] # send[k]) =>
              Head(broadcast).ChatID \in chatIDs[k]]_vars

\* C21 (rejected upgrades touch nothing): a request whose token is missing
\* or invalid, whose chat IDs cannot be loaded, or whose upgrade fails makes
\* the handler return before any Client exists: no connection is opened,
\* clients and chatSubscriptions stay as they are, and nothing is put on the
\* Hub's channels.
RejectedUpgradeTouchesNothing ==
    [][\A k \in Conns, u \in UserIDs, err \in UpgradeErrors :
          ServeHTTPRejected(k, u, err) =>
              UNCHANGED <<hpc, todo, clientVars, pumpVars, hubMaps, hubChans,
                          hubState, registering>>]_vars

\* A request was rejected while connection 1 is registered and running: the
\* one failure counted is neither a pump's (both are in their loops) nor a
\* presence lookup's (the online announcement went out), and slot 2 is free.
RejectedUpgradeTouchesNothingWitness ==
    /\ failures = 1
    /\ Opened = {1}
    /\ hpc[1] = "run" /\ rpc[1] = "loop" /\ wpc[1] = "loop" /\ ~closed[1]
    /\ Registered(1)
    /\ hubLast.op = "chat"
    /\ hubLast.msg.Event.Type = EventPresenceOnline
    /\ broadcast = <<>>

\* User u has a registered connection: the Hub has run registerClient for
\* it and has neither unregistered it nor closed it in shutdown.
HasRegisteredConnection(u) ==
    \E k \in Conns : /\ userID[k] = u
                     /\ hpc[k] \notin {"idle", "register"}
                     /\ registering # k
                     /\ ~closed[k]

\* C22 (online queries): IsUserOnline(u) is true exactly when u has a
\* registered connection; GetOnlineUsers(ids) returns the elements of ids
\* that have one at the moment of the call, in the order of ids; and the call
\* changes nothing of the Hub, the clients or the handlers.
OnlineQueries ==
    /\ [](\A u \in CandidateIDs : IsUserOnline(u) <=> HasRegisteredConnection(u))
    /\ [][GetOnlineStatusByUsers(queried'.ids) =>
              /\ queried'.online =
                     SelectSeq(queried'.ids, LAMBDA u : HasRegisteredConnection(u))
              /\ UNCHANGED <<hpc, todo, clientVars, pumpVars, hubMaps,
                             hubChans, hubState, registering>>]_vars

\* Users 1 and 2 are both online and the last call asked for 2, 1: it got
\* 2, 1.
OnlineQueriesWitness ==
    /\ queried = Query(<<2, 1>>, <<2, 1>>)
    /\ inputs = 1
    /\ IsUserOnline(1) /\ IsUserOnline(2)

\* C23 (either loop tears the connection down): once one pump of a running
\* connection has left its loop, then, unless the Hub's loop stops, the
\* connection is closed and out of the Hub, the other pump has left too and
\* client.Run can return.
EitherLoopTearsDown ==
    \A k \in Conns :
        (hpc[k] = "run" /\ (rpc[k] = "done" \/ wpc[k] = "done"))
            ~> (\/ hubState = "stopped"
                \/ /\ rpc[k] = "done" /\ wpc[k] = "done"
                   /\ closed[k] /\ ~Registered(k))

\* The read pump of connection 1 failed while the Hub was running; both
\* pumps have returned, the connection is closed and no longer registered,
\* and ServeHTTP is about to announce the user offline.
EitherLoopTearsDownWitness ==
    /\ hubState = "running"
    /\ failures = 1
    /\ hpc[1] = "run"
    /\ rpc[1] = "done" /\ wpc[1] = "done"
    /\ closed[1] /\ connCloses[1] = 1
    /\ userID[1] = 1 /\ ~IsUserOnline(1)
    /\ hubLast = Last("unregister", 1, NoMessage, {})

\* No registerClient or unregisterClient is half done: every connection in
\* clients has its whole chat set in chatSubscriptions, and a user without a
\* connection in clients is in no chat's subscription.
NothingHalfDone ==
    /\ \A k \in Conns : Registered(k) =>
           \A c \in chatIDs[k] : userID[k] \in Subscribers(c)
    /\ \A u \in UserIDs : u \notin DOMAIN clients =>
           \A c \in AllChatIDs : u \notin Subscribers(c)

\* C24 (register, unregister and broadcast are atomic to each other): every
\* step in which the Hub processes a chat broadcast, and every step in which
\* an online query reads clients, starts in a state where no registerClient
\* or unregisterClient is half done.
RegisterUnregisterAtomic ==
    [][(HubTakesBroadcast \/ GetOnlineStatusByUsers(queried'.ids)) =>
           NothingHalfDone]_vars

\* registerClient has put connection 1 of user 1 into clients and merged one
\* of its two chats; an online query was answered before it began.
RegisterUnregisterAtomicWitness ==
    /\ mu.owner = "registerClient"
    /\ mu.client = 1
    /\ Len(mu.left) = 1
    /\ Registered(1)
    /\ ~NothingHalfDone
    /\ queried = Query(<<1>>, <<>>)

\* C25 (no typing echo): an authorized typing.start / typing.stop read from
\* a connection of user u for chat c leads to exactly one message on
\* h.broadcast, for chat c, carrying user u and excluding u; when the Hub
\* processes a typing event no connection of its user gets it, and every
\* registered connection of another subscriber of the chat with room does.
NoTypingEcho ==
    /\ [](\A i \in 1..Len(broadcast) :
              broadcast[i].Event.Type \in TypingTypes =>
                  /\ broadcast[i].ExcludeID = broadcast[i].Event.UserID
                  /\ broadcast[i].ChatID = broadcast[i].Event.ChatID)
    /\ [][\A k \in Conns :
              /\ \A t \in TypingTypes, c \in AllChatIDs :
                     (ReadTyping(k, t, c) /\ c \in chatIDs[k]) =>
                         /\ rpc'[k] = "typing"
                         /\ typing'[k] = BroadcastMessage(c, Event(t, c, userID[k]),
                                                          userID[k])
                         /\ broadcast' = broadcast
              /\ HandleTypingSend(k) =>
                     /\ broadcast' = Append(broadcast, typing[k])
                     /\ typing'[k] = NoMessage
                     /\ rpc'[k] = "loop"
              /\ (HubTakesBroadcast /\ Head(broadcast).Event.Type \in TypingTypes) =>
                     LET msg == Head(broadcast)
                     IN /\ userID[k] = msg.Event.UserID => send'[k] = send[k]
                        /\ (/\ Registered(k)
                            /\ userID[k] # msg.Event.UserID
                            /\ userID[k] \in Subscribers(msg.ChatID)
                            /\ Len(send[k]) < sendBufferSize)
                           => send'[k] = Append(send[k], msg.Event)]_vars

\* Connection 1 of user 1 sent typing.start for chat 1 and the Hub has just
\* processed it: connection 2 of user 2 got it, connection 1 did not.
NoTypingEchoWitness ==
    /\ hubLast.op = "chat"
    /\ hubLast.msg = BroadcastMessage(1, Event(EventTypingStart, 1, 1), 1)
    /\ hubLast.got = {2}
    /\ userID[1] = 1 /\ userID[2] = 2
    /\ Registered(1) /\ Registered(2)
    /\ rpc[1] = "loop" /\ typing[1] = NoMessage
    /\ LastQueued(2) = Event(EventTypingStart, 1, 1)
    /\ \A i \in 1..Len(send[1]) : send[1][i].Type \notin TypingTypes

\* C26 (real-time notification never withholds a durable write): a
\* SendMessage, EditMessage, DeleteMessage or MarkMessagesAsRead call whose
\* storage write has succeeded returns whatever the Hub's state. Once the
\* Hub's loop has stopped nothing takes from h.broadcast any more, so such a
\* call returns only if it can return at once.
WriteAlwaysReturns ==
    \A u \in UserIDs, c \in AllChatIDs :
        (hubState = "stopped" /\ Spent < MaxCost) =>
            /\ c \in membership[u] => ENABLED SendMessage(u, c)
            /\ c \in membership[u] => ENABLED MarkMessagesAsRead(u, c)
            /\ ENABLED EditMessage(u, c)
            /\ ENABLED DeleteMessage(u, c)

\* C27 (offline goes where online went): when client.Run has returned and
\* broadcastPresence(false) has looked the chats up, the chats it is about
\* to announce presence.offline to are the chats the same connection's
\* presence.online went to, whatever happened to the user's memberships or
\* to the lookup in between.
OfflineToSameChats ==
    [][\A k \in Conns, ok \in BOOLEAN :
          (BroadcastPresenceStart(k, ok) /\ hpc[k] = "run") =>
              LET list == IF ok THEN SetToSeq(membership[userID[k]]) ELSE <<>>
              IN {list[i] : i \in 1..Len(list)} = announced[k]]_vars

\* No connection of user u other than k is in clients.
LastConnection(k) ==
    \A j \in Conns \ {k} : ~(userID[j] = userID[k] /\ Registered(j))

\* C28 (Run returns after the removal): whenever client.Run of a connection
\* has returned while the Hub control loop is running, the connection is
\* already out of clients and closed; so every presence.offline broadcast the
\* handler issues comes after the removal, and if the connection was the
\* user's last one IsUserOnline of the user is already false.
RunReturnsAfterRemoval ==
    /\ [](\A k \in Conns :
             (hubState = "running" /\ hpc[k] \in {"run", "offline"} /\ RunReturns(k))
             => /\ ~Registered(k)
                /\ closed[k]
                /\ LastConnection(k) => ~IsUserOnline(userID[k]))
    /\ [][\A k \in Conns :
             (hubState = "running" /\ IssuesPresence(k, FALSE))
             => /\ ~Registered(k)
                /\ closed[k]
                /\ LastConnection(k) => ~IsUserOnline(userID[k])]_vars

\* Both pumps of connection 1 have returned and ServeHTTP is announcing user
\* 1 offline, while the Hub still holds the client it received from
\* the second pump's Unregister; the connection left clients at the first.
RunReturnsAfterRemovalWitness ==
    /\ hubState = "running"
    /\ hpc[1] = "offline" /\ todo[1] # <<>>
    /\ RunReturns(1)
    /\ unregistering = 1
    /\ userID[1] = 1 /\ closed[1] /\ ~IsUserOnline(1)

\* C29 (bounded buffers): in every reachable state each connection's send
\* queue holds at most sendBufferSize events, and the Hub's broadcast and
\* userBroadcast channels hold at most broadcastBufferSize requests each,
\* whatever the producers do.
BuffersBounded ==
    /\ \A k \in Conns : Len(send[k]) <= sendBufferSize
    /\ Len(broadcast) <= broadcastBufferSize
    /\ Len(userBroadcast) <= broadcastBufferSize

\* A connection's send queue and the broadcast channel are full at once: the
\* next delivery to the connection is dropped and the next producer waits.
BuffersBoundedWitness ==
    /\ hubState = "running"
    /\ \E k \in Conns : Registered(k) /\ Len(send[k]) = sendBufferSize
    /\ Len(broadcast) = broadcastBufferSize

\* This step is Hub.Run taking the head of the userBroadcast channel.
HubTakesUserBroadcast ==
    HubLoopRuns /\ userBroadcast # <<>> /\ userBroadcast' = Tail(userBroadcast)

\* C30 (nothing is enqueued after the removal): every connection in clients
\* has not had Close called, and a broadcast the Hub processes, for a chat or
\* for a user, enqueues only on connections that are in clients; so once the
\* Hub has run unregisterClient for a connection, or closed it in shutdown,
\* no later broadcast it processes adds an event to that connection's queue.
HubEnqueuesOnClientsOnly ==
    /\ [](\A k \in Conns : Registered(k) => ~closed[k])
    /\ [][(HubTakesBroadcast \/ HubTakesUserBroadcast) =>
              \A k \in Conns :
                  send'[k] # send[k] => Registered(k) /\ ~closed[k]]_vars

\* The Hub has just processed a user broadcast: it reached the user's open
\* connection k and left alone the queue of the same user's connection j,
\* which the Hub had unregistered and closed before.
HubEnqueuesOnClientsOnlyWitness ==
    /\ hubLast.op = "user"
    /\ \E j, k \in Conns :
           /\ j # k
           /\ userID[j] = userID[k] /\ userID[k] \in UserIDs
           /\ closed[j] /\ ~Registered(j)
           /\ Registered(k) /\ k \in hubLast.got
           /\ j \notin hubLast.got /\ send[j] = <<>>

\* The upgrade handler, the pumps and the Hub's control loop.
Core ==
    \/ \E k \in Conns, u \in UserIDs : ServeHTTP(k, u)
    \/ \E k \in Conns, ok \in BOOLEAN : BroadcastPresenceStart(k, ok)
    \/ \E k \in Conns : BroadcastPresenceSend(k)
    \/ \E k \in Conns, pump \in {"read", "write"} : PumpExitNoHub(k, pump)
    \/ \E k \in Conns : WritePumpEvent(k)
    \/ \E k \in Conns : HubRegister(k)
    \/ HubRegisterClient
    \/ \E k \in Conns, pump \in {"read", "write"} : HubUnregister(k, pump)
    \/ HubBroadcastToChat
    \/ HubShutdown

\* The use cases that call the Broadcaster, and the userBroadcast case of
\* Hub.Run, which only they feed.
UseCases ==
    \/ HubBroadcastToUser
    \/ \E u \in UserIDs, c \in AllChatIDs : SendMessage(u, c)
    \/ \E u \in UserIDs, c \in AllChatIDs : MarkMessagesAsRead(u, c)
    \/ \E u \in UserIDs : PushToUser(u)

\* Membership changes and the Hub's direct subscription calls.
Subscriptions ==
    \/ \E u \in UserIDs, c \in AllChatIDs : AddParticipant(u, c)
    \/ \E u \in UserIDs, c \in AllChatIDs : RemoveParticipant(u, c)
    \/ \E c \in AllChatIDs, u \in UserIDs : SubscribeToChat(c, u)
    \/ \E c \in AllChatIDs, u \in UserIDs : UnsubscribeFromChat(c, u)

\* Typing messages from the clients.
Typing ==
    \/ \E k \in Conns, t \in TypingTypes, c \in AllChatIDs \cup {0} : ReadTyping(k, t, c)
    \/ \E k \in Conns : HandleTypingSend(k)

\* The message use cases, which all go through the Broadcaster.
Messages ==
    \/ \E u \in UserIDs, c \in AllChatIDs : SendMessage(u, c)
    \/ \E u \in UserIDs, c \in AllChatIDs : EditMessage(u, c)
    \/ \E u \in UserIDs, c \in AllChatIDs : DeleteMessage(u, c)
    \/ \E u \in UserIDs, c \in AllChatIDs : MarkMessagesAsRead(u, c)

\* Connections and the use cases broadcasting to them.
Next == Core \/ UseCases

Spec == Init /\ [][Next]_vars

\* Connections while chat memberships and subscriptions change.
SubscriptionNext == Core \/ Subscriptions

SubscriptionSpec == Init /\ [][SubscriptionNext]_vars

\* Connections whose clients send typing messages.
TypingNext == Core \/ Typing

TypingSpec == Init /\ [][TypingNext]_vars

\* Calls of Client.Send from outside the Hub.
SendCalls ==
    \E k \in Conns, ok \in BOOLEAN : Send(k, Event(EventError, 0, userID[k]), ok)

\* Connections whose clients are also sent to directly.
SendNext == Core \/ SendCalls

SendSpec == Init /\ [][SendNext]_vars

\* Connections while messages are sent, edited, deleted and read.
MessageNext == Core \/ Messages

MessageSpec == Init /\ [][MessageNext]_vars

\* A user joining a chat between two of their connections.
Joins ==
    \/ \E u \in UserIDs, c \in AllChatIDs : AddParticipant(u, c)
    \/ \E u \in UserIDs, c \in AllChatIDs : SendMessage(u, c)

\* Connections while users join chats and messages are sent.
JoinNext == Core \/ Joins

JoinSpec == Init /\ [][JoinNext]_vars

\* Requests that ServeHTTP rejects.
Rejections ==
    \E k \in Conns, u \in UserIDs, err \in UpgradeErrors : ServeHTTPRejected(k, u, err)

\* Connections while some upgrade requests are rejected.
UpgradeNext == Core \/ Rejections

UpgradeSpec == Init /\ [][UpgradeNext]_vars

\* Calls of the online-status use case.
Queries == \E ids \in CandidateLists : GetOnlineStatusByUsers(ids)

\* Connections while the online status of users is asked for.
QueryNext == Core \/ Queries

QuerySpec == Init /\ [][QueryNext]_vars

\* What the scheduler and Go's select guarantee: a pump whose connection is
\* closed leaves its loop and the Hub takes its Unregister; the Hub's loop
\* goes on taking what is ready on its channels and finishes a registration
\* it has begun; a read pump inside BroadcastToChat gets its message in once
\* there is room. Failures and inputs are never forced.
Fairness ==
    /\ \A k \in Conns, pump \in {"read", "write"} :
           WF_vars(closed[k] /\ HubUnregister(k, pump))
    /\ \A k \in Conns : WF_vars(HandleTypingSend(k))
    /\ WF_vars(HubRegisterClient)
    /\ WF_vars(HubBroadcastToChat)

\* Connections with typing clients, under fair scheduling.
TeardownSpec == Init /\ [][TypingNext]_vars /\ Fairness

\* The handlers, the pumps and the Hub's loop with registerClient and
\* unregisterClient taken statement by statement.
LockCore ==
    \/ \E k \in Conns, u \in UserIDs : ServeHTTP(k, u)
    \/ \E k \in Conns, ok \in BOOLEAN : BroadcastPresenceStart(k, ok)
    \/ \E k \in Conns : BroadcastPresenceSend(k)
    \/ \E k \in Conns, pump \in {"read", "write"} : PumpExitNoHub(k, pump)
    \/ \E k \in Conns : WritePumpEvent(k)
    \/ \E k \in Conns : HubRegister(k)
    \/ registerClientLock
    \/ registerClientSubscribe
    \/ registerClientUnlock
    \/ \E k \in Conns, pump \in {"read", "write"} : HubUnregisterReceive(k, pump)
    \/ unregisterClientLock
    \/ unregisterClientPrune
    \/ unregisterClientUnlock
    \/ HubBroadcastToChat
    \/ HubShutdown

\* Connections and online queries against a Hub whose registerClient and
\* unregisterClient are taken statement by statement.
LockNext == LockCore \/ Queries

LockSpec == Init /\ [][LockNext]_vars

====
